---- MODULE Spec2Model ----
(***************************************************************************)
(* Model of the JRA data-analysis repository: the pickle query cache       *)
(* (src/src/data/database.py), the analytical query library               *)
(* (src/src/data/extraction.py) and the group utilities                   *)
(* (src/src/features/base_features.py).                                    *)
(*                                                                         *)
(* Conventions.                                                            *)
(*  - A Python value that may be None, an int or a str is a record         *)
(*    [t, i, s] (t = "none" | "int" | "str").                              *)
(*  - A database string that the SQL inspects character by character       *)
(*    (kakutei_chakujun, tansho_odds, race_date) is a sequence of          *)
(*    one-character strings.                                               *)
(*  - The three tables jvd_se, jvd_ra, jvd_um are held joined: one row of  *)
(*    db is an entrant with its race's and its horse's columns.            *)
(*  - Percentages rounded to two decimals are integers in hundredths       *)
(*    (80.00 is 8000); an unrounded Python float is the exact rational     *)
(*    [num, den].                                                          *)
(***************************************************************************)
EXTENDS Integers, Sequences, FiniteSets, TLC

VARIABLES db, cache, last, clean, nCalls,
          group, aggPc, sqlJ, sqlS, pyRoi, pyWin,
          roi, rankJ, rankS,
          column, method, normPc, norm, normStatus,
          rowA, rowB, idPc, raceIdA, raceIdB, horseRaceIdA, horseRaceIdB,
          dirs, fxDir, fxMade, fxFiles, fxSaved, fxLast, nFx,
          caller, cfile, lastWriter

cacheVars == <<db, cache, last, clean, nCalls>>
aggVars == <<group, aggPc, sqlJ, sqlS, pyRoi, pyWin>>
rankVars == <<roi, rankJ, rankS>>
normVars == <<column, method, normPc, norm, normStatus>>
\* The variables of the specifications of base_features.py's row and column
\* utilities and of the cache's file system.
idVars == <<rowA, rowB, idPc, raceIdA, raceIdB, horseRaceIdA, horseRaceIdB>>
\* The feature extractor in use, and the directories of the file system.
fxInst == <<fxDir, fxMade, fxFiles, fxSaved, fxLast, nFx>>
fxVars == <<dirs, fxInst>>
\* What no function of database.py and extraction.py touches.
\* Two concurrent callers of query_with_cache and the file of their key.
concVars == <<caller, cfile, lastWriter>>
awayVars == <<normVars, idVars, fxInst, concVars>>
extVars == <<normVars, idVars, fxVars, concVars>>

vars == <<cacheVars, aggVars, rankVars, extVars>>

(***************************************************************************)
(* Bounds of the model.                                                    *)
(***************************************************************************)
MaxCalls == 2
MaxInserts == 1
MaxCorrupt == 1
MaxGroup == 3
MaxRoi == 20100
MaxColumn == 3
MaxFxOps == 5
MaxStoreOps == 3
PickleChunks == 2

(***************************************************************************)
(* Python values and strings.                                              *)
(***************************************************************************)
NoneV == [t |-> "none", i |-> 0, s |-> ""]
IntV(n) == [t |-> "int", i |-> n, s |-> ""]
StrV(x) == [t |-> "str", i |-> 0, s |-> x]

\* str(v), as an f-string formats it.
PyStr(v) ==
    CASE v.t = "none" -> "None"
      [] v.t = "int" -> ToString(v.i)
      [] OTHER -> v.s

\* bool(v): None, 0 and "" are false.
Truthy(v) ==
    CASE v.t = "none" -> FALSE
      [] v.t = "int" -> v.i # 0
      [] OTHER -> v.s # ""

RECURSIVE Join(_)
\* A sequence of one-character strings as one string.
Join(cs) == IF cs = <<>> THEN "" ELSE Head(cs) \o Join(Tail(cs))

Digits == {"0", "1", "2", "3", "4", "5", "6", "7", "8", "9"}

DigitVal(c) ==
    CASE c = "0" -> 0 [] c = "1" -> 1 [] c = "2" -> 2 [] c = "3" -> 3
      [] c = "4" -> 4 [] c = "5" -> 5 [] c = "6" -> 6 [] c = "7" -> 7
      [] c = "8" -> 8 [] c = "9" -> 9

RECURSIVE DigitsToInt(_)
\* CAST(x AS INTEGER) / CAST(x AS NUMERIC) / float(x) of an all-digit string.
DigitsToInt(cs) ==
    IF cs = <<>> THEN 0
    ELSE DigitsToInt(SubSeq(cs, 1, Len(cs) - 1)) * 10 + DigitVal(cs[Len(cs)])

\* x ~ '^[0-9]+$'
AllDigits(cs) == Len(cs) >= 1 /\ \A k \in 1..Len(cs) : cs[k] \in Digits

\* ROUND(a / b, 0) of non-negative NUMERICs: half away from zero.
RoundDiv(a, b) == (2 * a + b) \div (2 * b)

\* The elements of a set as a sequence in the strict total order Less
\* (ORDER BY).
SortBy(S, Less(_, _)) ==
    [k \in 1..Cardinality(S) |->
        CHOOSE x \in S : Cardinality({y \in S : Less(y, x)}) = k - 1]

Take(sq, n) == SubSeq(sq, 1, IF n < Len(sq) THEN n ELSE Len(sq))
Drop(sq, n) == SubSeq(sq, n + 1, Len(sq))

RECURSIVE SumSeq(_)
SumSeq(ns) == IF ns = <<>> THEN 0 ELSE Head(ns) + SumSeq(Tail(ns))

\* SUM(F(row)) over a set of rows (rows carry a unique id).
SumOver(S, F(_)) ==
    LET sq == SortBy(S, LAMBDA a, b : a.id < b.id)
    IN  SumSeq([k \in 1..Len(sq) |-> F(sq[k])])

(***************************************************************************)
(* The database: the join of jvd_se, jvd_ra and jvd_um.                    *)
(***************************************************************************)
SireOf(horse) == IF horse = "H3" THEN "S2" ELSE "S1"

MkRow(id, nen, tsukihi, race, horse, jockey, chaku, odds) ==
    [id |-> id, kaisai_nen |-> nen, kaisai_tsukihi |-> tsukihi,
     keibajo_code |-> "05", race_bango |-> race,
     track_type |-> "1", baba_jotai |-> "1", distance_category |-> "short",
     ketto_toroku_bango |-> horse, kishu_code |-> jockey,
     chichiuma_id |-> SireOf(horse),
     kakutei_chakujun |-> chaku, tansho_odds |-> odds]

InitialDb ==
    { MkRow(1, 2021, 101, 1, "H1", "J1", <<"0", "1">>, <<"3", "0">>),
      MkRow(2, 2021, 101, 1, "H2", "J1", <<"0", "2">>, <<"5", "0">>),
      MkRow(3, 2015, 505, 2, "H3", "J2", <<"0", "1">>, <<"5", "0">>) }

NewRows ==
    { MkRow(4, 2022, 303, 3, "H1", "J1", <<"0", "1">>, <<"5", "0">>),
      MkRow(5, 2022, 303, 3, "H2", "J1", <<"0", "0">>, <<"0">>) }

\* EXTRACT(YEAR FROM CURRENT_DATE)
CurrentYear == 2023

(***************************************************************************)
(* extraction.py: the query text each function builds.  A query is its     *)
(* template's name and the text spliced into it by the f-string.           *)
(***************************************************************************)
\* limit_clause = f"LIMIT {limit}" if limit else ""
LimitClause(limit) == IF Truthy(limit) THEN "LIMIT " \o PyStr(limit) ELSE ""

RaceBaseQuery(limit) == [tmpl |-> "race_base", splice |-> LimitClause(limit)]
RaceHorseQuery(limit) == [tmpl |-> "race_horse", splice |-> LimitClause(limit)]

\* date_condition, spliced when race_date is truthy (a fixed fragment).
DateCondition(race_date) == IF race_date # <<>> THEN "AND date" ELSE ""
HorsePrevQuery(race_date) ==
    [tmpl |-> "horse_prev", splice |-> DateCondition(race_date)]

JockeyQuery == [tmpl |-> "jockey_courses", splice |-> ""]

\* sire_condition, spliced when sire_id is truthy (a fixed fragment).
SireCondition(sire_id) == IF Truthy(sire_id) THEN "AND sire" ELSE ""
SireQuery(sire_id) ==
    [tmpl |-> "sire_condition_stats", splice |-> SireCondition(sire_id)]

(***************************************************************************)
(* The cache key each function derives.                                    *)
(***************************************************************************)
RaceBaseKey(start_year, end_year, limit) ==
    "race_base_" \o ToString(start_year) \o "_" \o ToString(end_year)
        \o "_" \o PyStr(limit)

RaceHorseKey(start_year, end_year, limit) ==
    "race_horse_" \o ToString(start_year) \o "_" \o ToString(end_year)
        \o "_" \o PyStr(limit)

HorsePrevKey(horse_id, race_date) ==
    IF race_date # <<>>
    THEN "horse_prev_" \o horse_id \o "_" \o Join(race_date)
    ELSE "horse_prev_" \o horse_id

SireKey(sire_id, min_horses, min_races) ==
    IF Truthy(sire_id)
    THEN "sire_track_condition" \o "_" \o PyStr(sire_id)
    ELSE "sire_track_condition"

(***************************************************************************)
(* roi_rank: the CASE of each aggregate query, on roi in hundredths.       *)
(***************************************************************************)
\* A variant whose A threshold is exclusive.
JockeyRoiRankExclusive(r) ==
    IF r >= 20000 THEN "S"
    ELSE IF r > 10000 THEN "A"
    ELSE IF r >= 7000 THEN "B"
    ELSE IF r >= 5000 THEN "C"
    ELSE "D"

JockeyRoiRank(r) ==
    IF r >= 20000 THEN "S"
    ELSE IF r >= 10000 THEN "A"
    ELSE IF r >= 7000 THEN "B"
    ELSE IF r >= 5000 THEN "C"
    ELSE "D"

SireRoiRank(r) ==
    IF r >= 20000 THEN "S"
    ELSE IF r >= 10000 THEN "A"
    ELSE IF r >= 7000 THEN "B"
    ELSE IF r >= 5000 THEN "C"
    ELSE "D"

(***************************************************************************)
(* What the database engine computes for each template.                    *)
(***************************************************************************)
\* ORDER BY kaisai_nen, kaisai_tsukihi, keibajo_code, race_bango (one course
\* in the data; entrants of a race in the order of their id).
RaceOrder(a, b) ==
    \/ a.kaisai_nen < b.kaisai_nen
    \/ /\ a.kaisai_nen = b.kaisai_nen
       /\ \/ a.kaisai_tsukihi < b.kaisai_tsukihi
          \/ /\ a.kaisai_tsukihi = b.kaisai_tsukihi
             /\ \/ a.race_bango < b.race_bango
                \/ (a.race_bango = b.race_bango /\ a.id < b.id)

\* s.kakutei_chakujun ~ '^[0-9]+$' AND s.kakutei_chakujun NOT IN ('00', '99')
JockeyFinishFilter(chaku) ==
    AllDigits(chaku) /\ Join(chaku) \notin {"00", "99"}

SireFinishFilter(chaku) ==
    AllDigits(chaku) /\ Join(chaku) \notin {"00", "99"}

HorsePrevFinishFilter(chaku) ==
    AllDigits(chaku) /\ Join(chaku) \notin {"00", "99"}

\* COUNT(*) FILTER (WHERE CAST(s.kakutei_chakujun AS INTEGER) = 1)
SqlIsWin(r) == DigitsToInt(r.kakutei_chakujun) = 1
SqlIsTop3(r) == DigitsToInt(r.kakutei_chakujun) <= 3

SqlWins(G) == Cardinality({r \in G : SqlIsWin(r)})

\* ROUND(wins::NUMERIC / COUNT(*) * 100, 2), in hundredths.
SqlWinRate(G) == RoundDiv(SqlWins(G) * 10000, Cardinality(G))

SqlTop3Rate(G) ==
    RoundDiv(Cardinality({r \in G : SqlIsTop3(r)}) * 10000, Cardinality(G))

\* ROUND(SUM(CASE WHEN win THEN odds / 10.0 ELSE 0 END) / COUNT(*) * 100, 2),
\* in hundredths.
SqlRoi(G) ==
    RoundDiv(SumOver(G, LAMBDA r : IF SqlIsWin(r)
                                   THEN DigitsToInt(r.tansho_odds) ELSE 0) * 1000,
             Cardinality(G))

MinId(G) == CHOOSE k \in {r.id : r \in G} : \A r \in G : k <= r.id

\* ORDER BY roi DESC (ties in the order the engine happens to produce: here
\* by the group's first row).
RoiDescOrder(G, H) ==
    \/ SqlRoi(G) > SqlRoi(H)
    \/ (SqlRoi(G) = SqlRoi(H) /\ MinId(G) < MinId(H))

JockeyHaving(total_races, min_races) == total_races >= min_races

JockeyStats(rows, jockey_code, years_range, min_races) ==
    LET W == {r \in rows :
                /\ r.kishu_code = jockey_code
                /\ r.kaisai_nen >= CurrentYear - years_range
                /\ JockeyFinishFilter(r.kakutei_chakujun)}
        GroupOf(r) == {x \in W :
                /\ x.kishu_code = r.kishu_code
                /\ x.keibajo_code = r.keibajo_code
                /\ x.track_type = r.track_type
                /\ x.distance_category = r.distance_category}
        Groups == {G \in {GroupOf(r) : r \in W} :
                      JockeyHaving(Cardinality(G), min_races)}
        sq == SortBy(Groups, RoiDescOrder)
        Rec(G) == LET r == CHOOSE x \in G : TRUE
                  IN [kishu_code |-> r.kishu_code,
                      keibajo_code |-> r.keibajo_code,
                      track_type |-> r.track_type,
                      distance_category |-> r.distance_category,
                      total_races |-> Cardinality(G),
                      wins |-> SqlWins(G),
                      top3 |-> Cardinality({x \in G : SqlIsTop3(x)}),
                      win_rate |-> SqlWinRate(G),
                      top3_rate |-> SqlTop3Rate(G),
                      roi |-> SqlRoi(G),
                      roi_rank |-> JockeyRoiRank(SqlRoi(G))]
    IN  [k \in 1..Len(sq) |-> Rec(sq[k])]

SireHaving(horses_count, total_races, min_horses, min_races) ==
    horses_count >= min_horses /\ total_races >= min_races

SireStats(rows, query, sire_id, min_horses, min_races) ==
    LET W == {r \in rows :
                /\ SireFinishFilter(r.kakutei_chakujun)
                /\ (query.splice # "" => r.chichiuma_id = PyStr(sire_id))}
        GroupOf(r) == {x \in W :
                /\ x.chichiuma_id = r.chichiuma_id
                /\ x.track_type = r.track_type
                /\ x.baba_jotai = r.baba_jotai}
        Horses(G) == {x.ketto_toroku_bango : x \in G}
        Groups == {G \in {GroupOf(r) : r \in W} :
                      SireHaving(Cardinality(Horses(G)), Cardinality(G),
                                 min_horses, min_races)}
        sq == SortBy(Groups, RoiDescOrder)
        Rec(G) == LET r == CHOOSE x \in G : TRUE
                  IN [sire_id |-> r.chichiuma_id,
                      track_type |-> r.track_type,
                      track_condition |-> r.baba_jotai,
                      horses_count |-> Cardinality(Horses(G)),
                      total_races |-> Cardinality(G),
                      wins |-> SqlWins(G),
                      win_rate |-> SqlWinRate(G),
                      roi |-> SqlRoi(G),
                      roi_rank |-> SireRoiRank(SqlRoi(G))]
    IN  [k \in 1..Len(sq) |-> Rec(sq[k])]

\* WHERE kaisai_nen BETWEEN :start_year AND :end_year ORDER BY ...
RaceBaseRows(rows, start_year, end_year) ==
    LET W == {r \in rows : start_year <= r.kaisai_nen /\ r.kaisai_nen <= end_year}
        First(r) == \A x \in W :
                        (/\ x.kaisai_nen = r.kaisai_nen
                         /\ x.kaisai_tsukihi = r.kaisai_tsukihi
                         /\ x.keibajo_code = r.keibajo_code
                         /\ x.race_bango = r.race_bango) => r.id <= x.id
        sq == SortBy({r \in W : First(r)}, RaceOrder)
    IN  [k \in 1..Len(sq) |->
            [kaisai_nen |-> sq[k].kaisai_nen,
             kaisai_tsukihi |-> sq[k].kaisai_tsukihi,
             keibajo_code |-> sq[k].keibajo_code,
             race_bango |-> sq[k].race_bango]]

RaceHorseRows(rows, start_year, end_year) ==
    SortBy({r \in rows : start_year <= r.kaisai_nen /\ r.kaisai_nen <= end_year},
           RaceOrder)

\* params["year"] = race_date[:4]; params["date"] = race_date[4:]
DateYear(race_date) == Take(race_date, 4)
DateDay(race_date) == Drop(race_date, 4)

HorsePrevRows(rows, query, horse_id, race_date) ==
    LET year == DigitsToInt(DateYear(race_date))
        date == DigitsToInt(DateDay(race_date))
        W == {r \in rows :
                /\ r.ketto_toroku_bango = horse_id
                /\ HorsePrevFinishFilter(r.kakutei_chakujun)
                /\ (query.splice # "" =>
                       \/ r.kaisai_nen < year
                       \/ (r.kaisai_nen = year /\ r.kaisai_tsukihi <= date))}
        sq == SortBy(W, RaceOrder)
    IN  [k \in 1..Len(sq) |->
            [kaisai_nen |-> sq[k].kaisai_nen,
             kaisai_tsukihi |-> sq[k].kaisai_tsukihi,
             race_bango |-> sq[k].race_bango,
             chakujun |-> DigitsToInt(sq[k].kakutei_chakujun),
             odds_tenths |-> DigitsToInt(sq[k].tansho_odds)]]

\* 02_analyze_race_data.py: races per year, 2020 to 2024.
YearlyQuery == [tmpl |-> "yearly_race_count", splice |-> ""]
YearlyKey == "yearly_race_count_2020_2024"

YearlyRows(rows) ==
    LET races == RaceBaseRows(rows, 2020, 2024)
        years == {races[k].kaisai_nen : k \in 1..Len(races)}
        sq == SortBy(years, LAMBDA a, b : a < b)
    IN  [k \in 1..Len(sq) |->
            [year |-> sq[k],
             race_count |-> Cardinality({j \in 1..Len(races) :
                                            races[j].kaisai_nen = sq[k]})]]

\* The LIMIT clause as the engine reads it: LIMIT n, LIMIT n OFFSET m, or a
\* syntax error.
LimitParses(splice) ==
    \/ splice = ""
    \/ \E n \in 0..9 : splice = "LIMIT " \o ToString(n)
    \/ splice = "LIMIT 1 OFFSET 1"

ApplyLimit(splice, sq) ==
    IF splice = "" THEN sq
    ELSE IF splice = "LIMIT 1 OFFSET 1" THEN Take(Drop(sq, 1), 1)
    ELSE Take(sq, CHOOSE n \in 0..9 : splice = "LIMIT " \o ToString(n))

\* execute_query: the query run on the database; up is whether the engine
\* can be reached.  A failure raises (ok = FALSE).
ExecuteQuery(query, params, rows, up) ==
    IF ~up \/ ~LimitParses(IF query.tmpl \in {"race_base", "race_horse"}
                           THEN query.splice ELSE "")
    THEN [ok |-> FALSE, table |-> <<>>]
    ELSE [ok |-> TRUE,
          table |->
            CASE query.tmpl = "race_base" ->
                   ApplyLimit(query.splice,
                              RaceBaseRows(rows, params.start_year, params.end_year))
              [] query.tmpl = "race_horse" ->
                   ApplyLimit(query.splice,
                              RaceHorseRows(rows, params.start_year, params.end_year))
              [] query.tmpl = "horse_prev" ->
                   HorsePrevRows(rows, query, params.horse_id, params.race_date)
              [] query.tmpl = "jockey_courses" ->
                   JockeyStats(rows, params.jockey_code, params.years_range,
                               params.min_races)
              [] query.tmpl = "sire_condition_stats" ->
                   SireStats(rows, query, params.sire_id, params.min_horses,
                             params.min_races)
              [] OTHER -> YearlyRows(rows)]

(***************************************************************************)
(* database.py: query_with_cache.  The cache directory is a function from  *)
(* cache names (the .pkl files that exist) to their content.               *)
(***************************************************************************)
Pickle(table) == [kind |-> "pickle", table |-> table]
Corrupt == [kind |-> "corrupt", table |-> <<>>]

Put(c, key, entry) ==
    [k \in DOMAIN c \cup {key} |-> IF k = key THEN entry ELSE c[k]]

\* Variants of the cache test: one that forgets force_refresh, one that
\* takes an entry that does not unpickle for a miss.
QwcHitIgnoresForce(force_refresh, c, key) == key \in DOMAIN c

QwcHitSkipsCorrupt(force_refresh, c, key) ==
    ~force_refresh /\ key \in DOMAIN c /\ c[key].kind = "pickle"

\* if not force_refresh and os.path.exists(cache_path)
QwcHit(force_refresh, c, key) == ~force_refresh /\ key \in DOMAIN c

\* return pd.read_pickle(cache_path): raises on an entry that does not unpickle.
ReadPickle(entry) ==
    IF entry.kind = "pickle"
    THEN [status |-> "ok", table |-> entry.table]
    ELSE [status |-> "DeserializationError", table |-> <<>>]

\* A variant that writes the (empty) frame of a failed query.
CacheAfterQueryAlwaysWrites(c, key, res) == Put(c, key, Pickle(res.table))

\* df = execute_query(query, params); df.to_pickle(cache_path): an exception
\* of execute_query leaves the function before to_pickle.
CacheAfterQuery(c, key, res) ==
    IF res.ok THEN Put(c, key, Pickle(res.table)) ELSE c

\* The outcome of one call: what is returned or raised, the cache after it,
\* and the number of queries it executed.
QueryWithCache(query, cache_name, force_refresh, params, rows, c, up) ==
    IF QwcHit(force_refresh, c, cache_name)
    THEN LET rd == ReadPickle(c[cache_name])
         IN  [status |-> rd.status, table |-> rd.table, cache |-> c,
              executed |-> 0]
    ELSE LET res == ExecuteQuery(query, params, rows, up)
         IN  [status |-> IF res.ok THEN "ok" ELSE "QueryError",
              table |-> res.table,
              cache |-> CacheAfterQuery(c, cache_name, res),
              executed |-> 1]

(***************************************************************************)
(* The callers' inputs.                                                    *)
(***************************************************************************)
StartYears == {2010, 2020}
EndYears == {2023}
Limits == {NoneV, IntV(1), StrV("1 OFFSET 1")}
HorseIds == {"H1"}
RaceDates == {<<>>, <<"2", "0", "2", "1", "1", "2", "3", "1">>}
JockeyCodes == {"J1"}
YearsRanges == {5}
SireIds == {NoneV, StrV("S1")}
MinHorses == {1, 2}
MinRaces == {1, 2}

KeyedFns == {"race_base", "race_horse", "horse_prev", "sire"}

NoCall ==
    [fn |-> "none", params |-> [none |-> TRUE], key |-> "",
     query |-> [tmpl |-> "", splice |-> ""], force |-> FALSE,
     status |-> "none", table |-> <<>>, executed |-> 0, existed |-> FALSE]

(***************************************************************************)
(* The directories of the file system.  database.py (line 49) and          *)
(* base_features.py (line 20) both resolve '../../data/cache' from a       *)
(* module two levels below the repository root: the default directory of   *)
(* a feature extractor is the directory of the query cache, whose files    *)
(* are the variable cache; fxFiles are the files of the other directory.   *)
(***************************************************************************)
DefaultDir == "data/cache"
CustomDir == "features/cache"
AllDirs == {DefaultDir, CustomDir}

\* os.makedirs(cache_dir, exist_ok=True)
Makedirs(ds, dir) == ds \cup {dir}

EmptyStore == [k \in {} |-> Corrupt]

\* The files of a directory.
StoreOf(dir, c, f) == IF dir = DefaultDir THEN c ELSE f

(***************************************************************************)
(* State machine of the cache and the query library.                       *)
(***************************************************************************)
CacheInit ==
    /\ db = InitialDb
    /\ cache = [k \in {} |-> Corrupt]
    /\ last = NoCall
    /\ clean = TRUE
    /\ nCalls = 0

AggIdle ==
    /\ group = <<>>
    /\ aggPc = "idle"
    /\ sqlJ = <<>>
    /\ sqlS = <<>>
    /\ pyRoi = [num |-> 0, den |-> 1]
    /\ pyWin = [num |-> 0, den |-> 1]

RankIdle ==
    /\ roi = 0
    /\ rankJ = "none"
    /\ rankS = "none"

NormIdle ==
    /\ column = <<>>
    /\ method = "none"
    /\ normPc = "idle"
    /\ norm = <<>>
    /\ normStatus = "none"

\* A row of the entrant frame, as the id functions read it.
IdRow(nen, tsukihi, keibajo, race, ketto) ==
    [kaisai_nen |-> nen, kaisai_tsukihi |-> tsukihi, keibajo_code |-> keibajo,
     race_bango |-> race, ketto_toroku_bango |-> ketto]

NoRow == IdRow(NoneV, NoneV, NoneV, NoneV, NoneV)

IdIdle ==
    /\ rowA = NoRow
    /\ rowB = NoRow
    /\ idPc = "idle"
    /\ raceIdA = ""
    /\ raceIdB = ""
    /\ horseRaceIdA = ""
    /\ horseRaceIdB = ""

NoRet == [none |-> TRUE, table |-> <<>>]
NoFxOp == [op |-> "none", name |-> "", data |-> <<>>, status |-> "none",
           ret |-> NoRet]

\* No feature extractor exists.
FxNone ==
    /\ fxDir = "none"
    /\ fxMade = FALSE
    /\ fxFiles = EmptyStore
    /\ fxSaved = [d \in AllDirs |-> <<>>]
    /\ fxLast = NoFxOp
    /\ nFx = 0

FxIdle == dirs = {DefaultDir} /\ FxNone

Callers == {1, 2}

\* The path of the key does not exist.
NoFile == [exists |-> FALSE, bytes |-> <<>>]

NoCaller == [pc |-> "idle", missed |-> FALSE, tbl |-> <<>>, off |-> 0,
             status |-> "none", ret |-> <<>>]

ConcIdle ==
    /\ caller = [p \in Callers |-> NoCaller]
    /\ cfile = NoFile
    /\ lastWriter = 0

ExtIdle == NormIdle /\ IdIdle /\ FxIdle /\ ConcIdle

Init == CacheInit /\ AggIdle /\ RankIdle /\ ExtIdle

\* A call that goes through query_with_cache.
CachedCall(fn, query, key, force, params, up) ==
    /\ nCalls < MaxCalls
    /\ LET out == QueryWithCache(query, key, force, params, db, cache, up)
       IN  /\ cache' = out.cache
           /\ last' = [fn |-> fn, params |-> params, key |-> key,
                       query |-> query, force |-> force,
                       status |-> out.status, table |-> out.table,
                       executed |-> out.executed,
                       existed |-> key \in DOMAIN cache]
           /\ clean' = (clean /\ ~force /\ out.status = "ok")
    /\ nCalls' = nCalls + 1
    /\ dirs' = Makedirs(dirs, DefaultDir)
    /\ UNCHANGED <<db, aggVars, rankVars, awayVars>>

GetRaceBaseInfo ==
    \E start_year \in StartYears, end_year \in EndYears, limit \in Limits,
       up \in BOOLEAN :
        CachedCall("race_base", RaceBaseQuery(limit),
                   RaceBaseKey(start_year, end_year, limit), FALSE,
                   [start_year |-> start_year, end_year |-> end_year,
                    limit |-> limit], up)

GetRaceAndHorseData ==
    \E start_year \in StartYears, end_year \in EndYears, limit \in Limits,
       up \in BOOLEAN :
        CachedCall("race_horse", RaceHorseQuery(limit),
                   RaceHorseKey(start_year, end_year, limit), FALSE,
                   [start_year |-> start_year, end_year |-> end_year,
                    limit |-> limit], up)

GetHorsePreviousRaces ==
    \E horse_id \in HorseIds, race_date \in RaceDates, up \in BOOLEAN :
        CachedCall("horse_prev", HorsePrevQuery(race_date),
                   HorsePrevKey(horse_id, race_date), FALSE,
                   [horse_id |-> horse_id, race_date |-> race_date], up)

GetSireTrackConditionStats ==
    \E sire_id \in SireIds, min_horses \in MinHorses, min_races \in MinRaces,
       up \in BOOLEAN :
        CachedCall("sire", SireQuery(sire_id),
                   SireKey(sire_id, min_horses, min_races), FALSE,
                   [sire_id |-> sire_id, min_horses |-> min_horses,
                    min_races |-> min_races], up)

\* get_jockey_course_stats calls execute_query itself: no cache is involved.
GetJockeyCourseStats ==
    \E jockey_code \in JockeyCodes, years_range \in YearsRanges,
       min_races \in MinRaces, up \in BOOLEAN :
        /\ nCalls < MaxCalls
        /\ LET params == [jockey_code |-> jockey_code,
                          years_range |-> years_range, min_races |-> min_races]
               res == ExecuteQuery(JockeyQuery, params, db, up)
           IN  /\ last' = [fn |-> "jockey", params |-> params, key |-> "",
                           query |-> JockeyQuery, force |-> FALSE,
                           status |-> IF res.ok THEN "ok" ELSE "QueryError",
                           table |-> res.table, executed |-> 1,
                           existed |-> FALSE]
               /\ clean' = (clean /\ res.ok)
        /\ nCalls' = nCalls + 1
        /\ UNCHANGED <<db, cache, aggVars, rankVars, extVars>>

\* A caller of query_with_cache itself (the analysis script, or a refresh of
\* a library table), which may pass force_refresh.
DirectCalls ==
    { [query |-> YearlyQuery, key |-> YearlyKey, params |-> [none |-> TRUE]],
      [query |-> SireQuery(NoneV), key |-> SireKey(NoneV, 1, 1),
       params |-> [sire_id |-> NoneV, min_horses |-> 1, min_races |-> 1]] }

QueryWithCacheCall ==
    \E d \in DirectCalls, force_refresh \in BOOLEAN, up \in BOOLEAN :
        CachedCall("direct", d.query, d.key, force_refresh, d.params, up)

\* The database changes between calls.
DbInsert ==
    \E r \in NewRows \ db :
        /\ Cardinality(db \ InitialDb) < MaxInserts
        /\ db' = db \cup {r}
        /\ UNCHANGED <<cache, last, clean, nCalls, aggVars, rankVars, extVars>>

\* A cache file is damaged from outside the program.
CorruptEntry ==
    \E k \in DOMAIN cache :
        /\ cache[k].kind = "pickle"
        /\ Cardinality({x \in DOMAIN cache : cache[x].kind = "corrupt"}) < MaxCorrupt
        /\ cache' = Put(cache, k, Corrupt)
        /\ clean' = FALSE
        /\ UNCHANGED <<db, last, nCalls, aggVars, rankVars, extVars>>

Next ==
    \/ GetRaceBaseInfo
    \/ GetRaceAndHorseData
    \/ GetHorsePreviousRaces
    \/ GetJockeyCourseStats
    \/ GetSireTrackConditionStats
    \/ QueryWithCacheCall
    \/ DbInsert
    \/ CorruptEntry

Spec == Init /\ [][Next]_vars

(***************************************************************************)
(* base_features.py: the in-memory group utilities.  A float result is the *)
(* exact rational [num, den].                                              *)
(***************************************************************************)
\* row['kakutei_chakujun'] == '01'
PyIsWin(r) == Join(r.kakutei_chakujun) = "01"

CalculateWinRate(g) ==
    IF Len(g) = 0 THEN [num |-> 0, den |-> 1]
    ELSE [num |-> Cardinality({k \in 1..Len(g) : PyIsWin(g[k])}) * 100,
          den |-> Len(g)]

\* total_return += float(row['tansho_odds']) / 10.0;
\* return (total_return / total_races) * 100
CalculateRoi(g) ==
    IF Len(g) = 0 THEN [num |-> 0, den |-> 1]
    ELSE [num |-> SumSeq([k \in 1..Len(g) |->
                            IF PyIsWin(g[k]) THEN DigitsToInt(g[k].tansho_odds)
                            ELSE 0]) * 100,
          den |-> 10 * Len(g)]

RatEq(a, b) == a.num * b.den = b.num * a.den
Hundredths(h) == [num |-> h, den |-> 100]

(***************************************************************************)
(* The aggregate functions applied to one group of rows: the two SQL       *)
(* aggregates (with their default thresholds at their least value) and     *)
(* the two Python utilities on the same rows.                              *)
(***************************************************************************)
Chakujuns ==
    { <<"0", "1">>, <<"0", "2">>, <<"0", "4">>, <<"0", "0">>, <<"9", "9">>,
      <<"1">>, <<"0", "0", "0">>, <<"A", "1">> }

AggRowDomain ==
    { MkRow(0, 2022, 101, 1, "H1", "J1", c, <<"3", "0">>) : c \in Chakujuns }
    \cup { MkRow(0, 2022, 101, 1, "H2", "J1", <<"0", "1">>, <<"5", "0">>),
           MkRow(0, 2022, 101, 1, "H2", "J1", <<"0", "2">>, <<"5", "0">>) }

\* The group as rows of the database: the k-th row has id k.
GroupRows(g) == {[g[k] EXCEPT !.id = k, !.race_bango = k] : k \in 1..Len(g)}

AggInit ==
    /\ CacheInit
    /\ RankIdle
    /\ ExtIdle
    /\ group \in UNION {[1..n -> AggRowDomain] : n \in 0..MaxGroup}
    /\ aggPc = "input"
    /\ sqlJ = <<>>
    /\ sqlS = <<>>
    /\ pyRoi = [num |-> 0, den |-> 1]
    /\ pyWin = [num |-> 0, den |-> 1]

SqlAggregate ==
    /\ aggPc = "input"
    /\ \E min_races \in MinRaces, min_horses \in MinHorses :
        /\ sqlJ' = JockeyStats(GroupRows(group), "J1", 5, min_races)
        /\ sqlS' = SireStats(GroupRows(group), SireQuery(NoneV), NoneV,
                             min_horses, min_races)
    /\ aggPc' = "sql"
    /\ UNCHANGED <<group, pyRoi, pyWin, cacheVars, rankVars, extVars>>

PyAggregate ==
    /\ aggPc = "sql"
    /\ pyRoi' = CalculateRoi(group)
    /\ pyWin' = CalculateWinRate(group)
    /\ aggPc' = "done"
    /\ UNCHANGED <<group, sqlJ, sqlS, cacheVars, rankVars, extVars>>

AggNext == SqlAggregate \/ PyAggregate

SpecAgg == AggInit /\ [][AggNext]_vars

(***************************************************************************)
(* roi_rank applied to one roi (in hundredths).                            *)
(***************************************************************************)
RankInit ==
    /\ CacheInit
    /\ AggIdle
    /\ ExtIdle
    /\ roi \in 0..MaxRoi
    /\ rankJ = "none"
    /\ rankS = "none"

Grade ==
    /\ rankJ = "none"
    /\ rankJ' = JockeyRoiRank(roi)
    /\ rankS' = SireRoiRank(roi)
    /\ UNCHANGED <<roi, cacheVars, aggVars, extVars>>

RankNext == Grade

SpecRank == RankInit /\ [][RankNext]_vars

(***************************************************************************)
(* normalize_numeric applied to one column.  A float of the result column  *)
(* is [kind, num, den]: kind "num" is the exact rational num/den, kind     *)
(* "nan" is NaN (0/0), kind "inf" an infinity (x/0, x # 0).  For method    *)
(* 'standard' the rational of a "num" is z * |z| (the signed square of the *)
(* score z), which is rational although the deviation is a square root.    *)
(***************************************************************************)
ColumnValues == {10, 15, 20}
Methods == {"min_max", "standard", "robust"}

NaN == [kind |-> "nan", num |-> 0, den |-> 1]

\* Series.min() and Series.max() of a non-empty column.
SeriesMin(col) == CHOOSE v \in {col[k] : k \in 1..Len(col)} :
                      \A k \in 1..Len(col) : v <= col[k]
SeriesMax(col) == CHOOSE v \in {col[k] : k \in 1..Len(col)} :
                      \A k \in 1..Len(col) : v >= col[k]

\* n / d on floats: a zero divisor raises nothing, it gives NaN or an
\* infinity.
FloatDiv(n, d) ==
    IF d = 0 THEN (IF n = 0 THEN NaN ELSE [kind |-> "inf", num |-> n, den |-> 0])
    ELSE [kind |-> "num", num |-> n, den |-> d]

\* (df[column] - df[column].min()) / (df[column].max() - df[column].min())
MinMaxNorm(col) ==
    [k \in 1..Len(col) |->
        FloatDiv(col[k] - SeriesMin(col), SeriesMax(col) - SeriesMin(col))]

\* (df[column] - df[column].mean()) / df[column].std(): std is the sample
\* deviation (NaN for fewer than two values).  With n values of sum S and
\* d(v) = n*v - S, the signed square of the score of v is
\* sign(d(v)) * d(v)^2 * (n - 1) / sum of d(w)^2.
StandardNorm(col) ==
    LET n == Len(col)
        S == SumSeq(col)
        d(v) == n * v - S
        ss == SumSeq([k \in 1..n |-> d(col[k]) * d(col[k])])
    IN  [k \in 1..n |->
            IF n < 2 THEN NaN
            ELSE FloatDiv((IF d(col[k]) < 0 THEN -1 ELSE 1)
                              * d(col[k]) * d(col[k]) * (n - 1), ss)]

\* The function has no raise: every call returns the frame.  has_norm
\* tells whether the column "<column>_norm" was stored.
NormalizeNumeric(col, meth) ==
    CASE meth = "min_max" ->
            [status |-> "ok", has_norm |-> TRUE, norm |-> MinMaxNorm(col)]
      [] meth = "standard" ->
            [status |-> "ok", has_norm |-> TRUE, norm |-> StandardNorm(col)]
      [] OTHER -> [status |-> "ok", has_norm |-> FALSE, norm |-> <<>>]

NormInit ==
    /\ CacheInit
    /\ AggIdle
    /\ RankIdle
    /\ IdIdle
    /\ FxIdle
    /\ ConcIdle
    /\ column \in UNION {[1..n -> ColumnValues] : n \in 0..MaxColumn}
    /\ method \in Methods
    /\ normPc = "input"
    /\ norm = <<>>
    /\ normStatus = "none"

Normalize ==
    /\ normPc = "input"
    /\ LET out == NormalizeNumeric(column, method)
       IN  /\ norm' = out.norm
           /\ normStatus' = out.status
    /\ normPc' = "done"
    /\ UNCHANGED <<column, method, cacheVars, aggVars, rankVars, idVars,
                   fxVars, concVars>>

NormNext == Normalize

SpecNorm == NormInit /\ [][NormNext]_vars

(***************************************************************************)
(* create_race_id and create_horse_race_id applied to two rows.  A field   *)
(* of a row is a Python value; the f-string formats it with str().         *)
(***************************************************************************)
KaisaiNens == {StrV("2021"), StrV("2020")}
KaisaiTsukihis == {StrV("0101"), StrV("0102")}
KeibajoCodes == {StrV("05"), StrV("50"), IntV(5)}
RaceBangos == {StrV("12"), StrV("11"), StrV("012")}
KettoBangos == {StrV("1234567890"), StrV("1234567891")}

IdRows ==
    { IdRow(n, t, k, r, h) : n \in KaisaiNens, t \in KaisaiTsukihis,
                             k \in KeibajoCodes, r \in RaceBangos,
                             h \in KettoBangos }

\* A race id that leaves the race number out.
CreateRaceIdNoRaceBango(row) ==
    PyStr(row.kaisai_nen) \o PyStr(row.kaisai_tsukihi)
        \o PyStr(row.keibajo_code)

CreateRaceId(row) ==
    PyStr(row.kaisai_nen) \o PyStr(row.kaisai_tsukihi)
        \o PyStr(row.keibajo_code) \o PyStr(row.race_bango)

CreateHorseRaceId(row) ==
    CreateRaceId(row) \o "_" \o PyStr(row.ketto_toroku_bango)

IdInit ==
    /\ CacheInit
    /\ AggIdle
    /\ RankIdle
    /\ NormIdle
    /\ FxIdle
    /\ ConcIdle
    /\ rowA \in IdRows
    /\ rowB \in IdRows
    /\ idPc = "input"
    /\ raceIdA = ""
    /\ raceIdB = ""
    /\ horseRaceIdA = ""
    /\ horseRaceIdB = ""

CreateIds ==
    /\ idPc = "input"
    /\ raceIdA' = CreateRaceId(rowA)
    /\ raceIdB' = CreateRaceId(rowB)
    /\ horseRaceIdA' = CreateHorseRaceId(rowA)
    /\ horseRaceIdB' = CreateHorseRaceId(rowB)
    /\ idPc' = "done"
    /\ UNCHANGED <<rowA, rowB, cacheVars, aggVars, rankVars, normVars,
                   fxVars, concVars>>

IdNext == CreateIds

SpecId == IdInit /\ [][IdNext]_vars

(***************************************************************************)
(* BaseFeatureExtractor: constructor, load_from_cache, save_to_cache.      *)
(* fxDir is self.cache_dir of the extractor in use ("none": none built     *)
(* yet), fxMade tells whether its constructor had to create the            *)
(* directory, fxSaved[dir][name] lists what save_to_cache stored under     *)
(* name in dir, oldest first.                                              *)
(***************************************************************************)
CacheDirArgs == {NoneV, StrV(CustomDir)}
FxNames == {"speed_features", YearlyKey}
FxData == { <<[feature |-> 1]>>, <<[feature |-> 2]>> }

\* if cache_dir is None: cache_dir = <default>
ResolveCacheDir(cache_dir) ==
    IF cache_dir.t = "none" THEN DefaultDir ELSE cache_dir.s

\* os.path.exists, then read_pickle or None.
LoadFromCache(st, name) ==
    IF name \in DOMAIN st
    THEN LET rd == ReadPickle(st[name])
         IN  [status |-> rd.status,
              ret |-> [none |-> FALSE, table |-> rd.table]]
    ELSE [status |-> "ok", ret |-> NoRet]

\* A save that leaves an existing file as it is.
SaveToCacheKeepsFirst(ds, dir, st, data, name) ==
    IF name \in DOMAIN st THEN [status |-> "ok", store |-> st]
    ELSE [status |-> "ok", store |-> Put(st, name, Pickle(data))]

\* data.to_pickle(path): opens the file for writing, which fails when the
\* directory of the path does not exist.
SaveToCache(ds, dir, st, data, name) ==
    IF dir \in ds THEN [status |-> "ok", store |-> Put(st, name, Pickle(data))]
    ELSE [status |-> "OSError", store |-> st]

FxOp == nFx < MaxFxOps /\ nFx' = nFx + 1

FxConstruct ==
    \E cache_dir \in CacheDirArgs :
        LET dir == ResolveCacheDir(cache_dir)
        IN  /\ FxOp
            /\ fxDir' = dir
            /\ fxMade' = (dir \notin dirs)
            /\ dirs' = Makedirs(dirs, dir)
            /\ fxLast' = [NoFxOp EXCEPT !.op = "init", !.status = "ok"]
            /\ UNCHANGED <<fxFiles, fxSaved, cacheVars, aggVars, rankVars,
                           normVars, idVars, concVars>>

FxSave ==
    \E data \in FxData, name \in FxNames :
        LET out == SaveToCache(dirs, fxDir, StoreOf(fxDir, cache, fxFiles),
                               data, name)
            old == IF name \in DOMAIN fxSaved[fxDir]
                   THEN fxSaved[fxDir][name] ELSE <<>>
        IN  /\ fxDir # "none"
            /\ FxOp
            /\ cache' = IF fxDir = DefaultDir THEN out.store ELSE cache
            /\ fxFiles' = IF fxDir = DefaultDir THEN fxFiles ELSE out.store
            /\ fxSaved' = IF out.status = "ok"
                          THEN [fxSaved EXCEPT
                                  ![fxDir] = Put(@, name, Append(old, data))]
                          ELSE fxSaved
            /\ fxLast' = [op |-> "save", name |-> name, data |-> data,
                          status |-> out.status, ret |-> NoRet]
            /\ UNCHANGED <<db, last, clean, nCalls, dirs, fxDir, fxMade,
                           aggVars, rankVars, normVars, idVars, concVars>>

FxLoad ==
    \E name \in FxNames :
        LET out == LoadFromCache(StoreOf(fxDir, cache, fxFiles), name)
        IN  /\ fxDir # "none"
            /\ FxOp
            /\ fxLast' = [op |-> "load", name |-> name, data |-> <<>>,
                          status |-> out.status, ret |-> out.ret]
            /\ UNCHANGED <<dirs, fxDir, fxMade, fxFiles, fxSaved, cacheVars,
                           aggVars, rankVars, normVars, idVars, concVars>>

\* Either directory may exist or not when the program starts.
FxInit ==
    /\ CacheInit
    /\ AggIdle
    /\ RankIdle
    /\ NormIdle
    /\ IdIdle
    /\ dirs \in SUBSET AllDirs
    /\ FxNone
    /\ ConcIdle

FxNext == FxConstruct \/ FxSave \/ FxLoad

SpecFx == FxInit /\ [][FxNext]_vars

(***************************************************************************)
(* The query cache and a feature extractor in one program: the query       *)
(* functions, query_with_cache, the database and the extractor.            *)
(***************************************************************************)
StoreOp == nCalls + nFx < MaxStoreOps

StoreNext ==
    \/ StoreOp /\ GetRaceBaseInfo
    \/ StoreOp /\ GetRaceAndHorseData
    \/ StoreOp /\ GetHorsePreviousRaces
    \/ StoreOp /\ GetJockeyCourseStats
    \/ StoreOp /\ GetSireTrackConditionStats
    \/ StoreOp /\ QueryWithCacheCall
    \/ DbInsert
    \/ StoreOp /\ FxConstruct
    \/ StoreOp /\ FxSave
    \/ StoreOp /\ FxLoad

SpecStore == FxInit /\ [][StoreNext]_vars

(***************************************************************************)
(* Two calls query_with_cache(query, key) on one key, not forced, running  *)
(* concurrently, one step per statement of the function.  Nothing in the   *)
(* function coordinates them: no lock, no temporary file, no rename.       *)
(* to_pickle opens the path for writing, which creates or truncates the    *)
(* file, and writes the pickle in PickleChunks writes at its own offset,   *)
(* so the bytes of the file are whatever the writes of both callers left.  *)
(* The bytes are a sequence of chunks [of |-> table, part |-> k].          *)
(***************************************************************************)
Hole == [of |-> <<>>, part |-> 0]

PickleBytes(table) == [k \in 1..PickleChunks |-> [of |-> table, part |-> k]]

\* open(path, "wb")
OpenForWrite(f) == [exists |-> TRUE, bytes |-> <<>>]

\* write of the k-th chunk by a writer whose offset is k - 1.
WriteAt(f, k, chunk) ==
    LET n == IF Len(f.bytes) > k THEN Len(f.bytes) ELSE k
    IN  [exists |-> TRUE,
         bytes |-> [i \in 1..n |->
                      IF i = k THEN chunk
                      ELSE IF i <= Len(f.bytes) THEN f.bytes[i] ELSE Hole]]

\* The cache entry that the bytes of the file are: the pickle of a table
\* when they are the chunks of one pickle, damaged otherwise.
FileEntry(f) ==
    IF /\ Len(f.bytes) >= PickleChunks
       /\ \A k \in 1..PickleChunks :
             f.bytes[k] = [of |-> f.bytes[1].of, part |-> k]
    THEN Pickle(f.bytes[1].of)
    ELSE Corrupt

\* The cache directory, as the two callers see it.
ConcCache ==
    IF cfile.exists THEN [k \in {YearlyKey} |-> FileEntry(cfile)]
    ELSE EmptyStore

ConcFrame == UNCHANGED <<cacheVars, aggVars, rankVars, normVars, idVars,
                         fxInst>>

ConcInit ==
    /\ CacheInit
    /\ AggIdle
    /\ RankIdle
    /\ NormIdle
    /\ IdIdle
    /\ FxIdle
    /\ caller = [p \in Callers |-> [NoCaller EXCEPT !.pc = "check"]]
    /\ cfile = NoFile
    /\ lastWriter = 0

\* os.makedirs(...); if not force_refresh and os.path.exists(cache_path)
ConcCheck(p) ==
    /\ caller[p].pc = "check"
    /\ dirs' = Makedirs(dirs, DefaultDir)
    /\ caller' = [caller EXCEPT
                    ![p].pc = IF QwcHit(FALSE, ConcCache, YearlyKey)
                              THEN "read" ELSE "query",
                    ![p].missed = ~QwcHit(FALSE, ConcCache, YearlyKey)]
    /\ UNCHANGED <<cfile, lastWriter>>
    /\ ConcFrame

\* return pd.read_pickle(cache_path)
ConcRead(p) ==
    /\ caller[p].pc = "read"
    /\ LET rd == ReadPickle(ConcCache[YearlyKey])
       IN  caller' = [caller EXCEPT ![p].pc = "done",
                                    ![p].status = rd.status,
                                    ![p].ret = rd.table]
    /\ UNCHANGED <<cfile, lastWriter, dirs>>
    /\ ConcFrame

\* df = execute_query(query, params)
ConcQuery(p) ==
    /\ caller[p].pc = "query"
    /\ \E up \in BOOLEAN :
        LET res == ExecuteQuery(YearlyQuery, [none |-> TRUE], db, up)
        IN  caller' = IF res.ok
                      THEN [caller EXCEPT ![p].pc = "open",
                                          ![p].tbl = res.table]
                      ELSE [caller EXCEPT ![p].pc = "done",
                                          ![p].status = "QueryError"]
    /\ UNCHANGED <<cfile, lastWriter, dirs>>
    /\ ConcFrame

\* df.to_pickle(cache_path): the file is opened
ConcOpen(p) ==
    /\ caller[p].pc = "open"
    /\ cfile' = OpenForWrite(cfile)
    /\ lastWriter' = p
    /\ caller' = [caller EXCEPT ![p].pc = "write", ![p].off = 0]
    /\ UNCHANGED dirs
    /\ ConcFrame

\* df.to_pickle(cache_path): one write; after the last one, return df
ConcWrite(p) ==
    /\ caller[p].pc = "write"
    /\ LET k == caller[p].off + 1
       IN  /\ cfile' = WriteAt(cfile, k, PickleBytes(caller[p].tbl)[k])
           /\ caller' = IF k = PickleChunks
                        THEN [caller EXCEPT ![p].pc = "done",
                                            ![p].off = k,
                                            ![p].status = "ok",
                                            ![p].ret = caller[p].tbl]
                        ELSE [caller EXCEPT ![p].off = k]
    /\ lastWriter' = p
    /\ UNCHANGED dirs
    /\ ConcFrame

ConcNext ==
    \/ \E p \in Callers : ConcCheck(p)
    \/ \E p \in Callers : ConcRead(p)
    \/ \E p \in Callers : ConcQuery(p)
    \/ \E p \in Callers : ConcOpen(p)
    \/ \E p \in Callers : ConcWrite(p)
    \/ DbInsert

SpecConc == ConcInit /\ [][ConcNext]_vars

(***************************************************************************)
(* Properties.                                                             *)
(***************************************************************************)
\* A step that is a call of one of the functions.
IsCall == nCalls' = nCalls + 1

LibraryFns == KeyedFns \cup {"jockey"}

\* C1: in a run of non-forced calls with no cache damage and no failing
\* query, a call on a key that has no entry executes the query once, and a
\* call that repeats the previous call's function and parameters executes
\* no query and returns the identical table.
C1_QueryOncePerKey ==
    [][(IsCall /\ clean' /\ last'.fn \in LibraryFns) =>
          /\ (last'.fn \in KeyedFns /\ last'.key \notin DOMAIN cache)
                => last'.executed = 1
          /\ (last.fn = last'.fn /\ last.params = last'.params)
                => (last'.executed = 0 /\ last'.table = last.table)]_vars

\* C2: one call of query_with_cache: not forced and the entry exists (and
\* unpickles): the entry is returned, no query runs, the cache is unchanged;
\* otherwise the query runs once and, when it succeeds, its result is stored
\* under the key, replacing what was there, every other entry untouched, and
\* the stored table is the one returned.
C2_SingleCall ==
    [][(IsCall /\ last'.fn # "jockey") =>
          LET k == last'.key
          IN  IF ~last'.force /\ k \in DOMAIN cache
              THEN cache[k].kind = "pickle" =>
                      /\ last'.status = "ok"
                      /\ last'.table = cache[k].table
                      /\ last'.executed = 0
                      /\ cache' = cache
              ELSE /\ last'.executed = 1
                   /\ last'.status = "ok" =>
                        /\ DOMAIN cache' = DOMAIN cache \cup {k}
                        /\ cache'[k] = [kind |-> "pickle", table |-> last'.table]
                        /\ \A j \in DOMAIN cache \ {k} : cache'[j] = cache[j]
                        /\ last'.table =
                             ExecuteQuery(last'.query, last'.params, db, TRUE).table]_vars

\* A forced refresh of an existing entry after the database changed: the
\* entry now holds the table just returned.
C2_Witness ==
    /\ last.fn = "direct"
    /\ last.force
    /\ last.existed
    /\ last.status = "ok"
    /\ db # InitialDb
    /\ cache[last.key] = [kind |-> "pickle", table |-> last.table]

\* C3: consecutive calls of the keyed query functions derive the same cache
\* key exactly when they are the same function with the same parameters.
C3_KeysInjective ==
    [][(IsCall /\ last.fn \in KeyedFns /\ last'.fn \in KeyedFns) =>
          ((last.fn = last'.fn /\ last.params = last'.params)
              <=> last.key = last'.key)]_vars

\* C4: every row returned by the sire or the jockey statistics meets the
\* thresholds of the call that returned it.
C4_ThresholdsOfTheCall ==
    (last.status = "ok" /\ last.fn \in {"sire", "jockey"}) =>
        \A k \in 1..Len(last.table) :
            /\ last.table[k].total_races >= last.params.min_races
            /\ last.fn = "sire" =>
                  last.table[k].horses_count >= last.params.min_horses

\* C5: roi_rank is the step function S: roi >= 200, A: 100 <= roi < 200,
\* B: 70 <= roi < 100, C: 50 <= roi < 70, D: roi < 50, exactly one grade per
\* roi, the same in the jockey and the sire query.
C5_RoiRankPartition ==
    rankJ # "none" =>
        /\ rankJ = rankS
        /\ rankJ \in {"S", "A", "B", "C", "D"}
        /\ rankJ = "S" <=> roi >= 20000
        /\ rankJ = "A" <=> (10000 <= roi /\ roi < 20000)
        /\ rankJ = "B" <=> (7000 <= roi /\ roi < 10000)
        /\ rankJ = "C" <=> (5000 <= roi /\ roi < 7000)
        /\ rankJ = "D" <=> roi < 5000

\* roi = 100.00 graded A by both queries.
C5_Witness == roi = 10000 /\ rankJ = "A" /\ rankS = "A"

\* A finishing position that is a well-formed positive integer and not a
\* sentinel code.
PositiveFinish(chaku) ==
    /\ Len(chaku) >= 1
    /\ \A k \in 1..Len(chaku) : chaku[k] \in Digits
    /\ \E k \in 1..Len(chaku) : chaku[k] # "0"
    /\ chaku \notin {<<"0", "0">>, <<"9", "9">>}

\* C6: in both aggregates total_races, wins and top3 count only the rows
\* whose finishing position is a well-formed positive integer string.
C6_OnlyPositiveFinishesCount ==
    aggPc \in {"sql", "done"} =>
        LET ok == {k \in 1..Len(group) : PositiveFinish(group[k].kakutei_chakujun)}
            won == {k \in ok : DigitsToInt(group[k].kakutei_chakujun) = 1}
            placed == {k \in ok : DigitsToInt(group[k].kakutei_chakujun) <= 3}
        IN  /\ \A j \in 1..Len(sqlJ) :
                  /\ sqlJ[j].total_races = Cardinality(ok)
                  /\ sqlJ[j].wins = Cardinality(won)
                  /\ sqlJ[j].top3 = Cardinality(placed)
            /\ \A j \in 1..Len(sqlS) :
                  /\ sqlS[j].total_races = Cardinality(ok)
                  /\ sqlS[j].wins = Cardinality(won)

\* C7: on a group whose rows all pass the SQL filter and whose winners both
\* sides recognise alike, calculate_roi and calculate_win_rate return
\* exactly the roi and win_rate of the SQL aggregate of the same rows.
C7_PythonMatchesSql ==
    (/\ aggPc = "done"
     /\ Len(sqlJ) = 1
     /\ \A k \in 1..Len(group) :
           /\ JockeyFinishFilter(group[k].kakutei_chakujun)
           /\ PyIsWin(group[k]) <=> SqlIsWin(group[k]))
    => /\ RatEq(pyRoi, Hundredths(sqlJ[1].roi))
       /\ RatEq(pyWin, Hundredths(sqlJ[1].win_rate))

\* C8: a non-forced call on a key whose entry does not unpickle raises the
\* read error, executes no query and leaves the cache as it was.
C8_CorruptEntryRaises ==
    [][(/\ IsCall
        /\ last'.fn # "jockey"
        /\ ~last'.force
        /\ last'.key \in DOMAIN cache
        /\ cache[last'.key].kind = "corrupt")
       => /\ last'.status = "DeserializationError"
          /\ last'.executed = 0
          /\ cache' = cache]_vars

\* A call has raised on a corrupt entry, which is still in place.
C8_Witness ==
    /\ last.status = "DeserializationError"
    /\ ~last.force
    /\ last.key \in DOMAIN cache
    /\ cache[last.key].kind = "corrupt"

\* C9: a call whose query fails raises after one attempt, creates and
\* overwrites no entry, and every entry that unpickled before the call is
\* what a non-forced call on its key returns after it, without a query.
C9_QueryFailureKeepsCache ==
    [][(IsCall /\ last'.status = "QueryError") =>
          /\ last'.executed = 1
          /\ DOMAIN cache' = DOMAIN cache
          /\ \A k \in DOMAIN cache :
                /\ cache'[k] = cache[k]
                /\ cache[k].kind = "pickle" =>
                      LET again == QueryWithCache(last'.query, k, FALSE,
                                                  last'.params, db', cache', TRUE)
                      IN  /\ again.status = "ok"
                          /\ again.table = cache[k].table
                          /\ again.executed = 0]_vars

\* A forced refresh failed on a key that had an entry, and the entry is
\* still there.
C9_Witness ==
    /\ last.status = "QueryError"
    /\ last.force
    /\ last.existed
    /\ last.key \in DOMAIN cache
    /\ cache[last.key].kind = "pickle"

\* C10: get_race_base_info and get_race_and_horse_data called with a limit
\* that is not an integer fail with a ValidationError and execute no query.
C10_LimitValidated ==
    (last.fn \in {"race_base", "race_horse"} /\ last.params.limit.t = "str") =>
        /\ last.status = "ValidationError"
        /\ last.executed = 0

\* A column whose values are all equal.
ConstantColumn == Len(column) >= 1 /\ SeriesMax(column) = SeriesMin(column)

\* C11: normalize_numeric on a constant column (max = min for 'min_max',
\* deviation 0 for 'standard') fails with a DegenerateRangeError and stores
\* no NaN; on a non-constant column 'min_max' maps the minimum to 0, the
\* maximum to 1 and every value into [0, 1].
C11_NormalizeGuardsConstant ==
    normPc = "done" =>
        /\ (method = "min_max" /\ ConstantColumn)
              => normStatus = "DegenerateRangeError"
        /\ (method = "standard" /\ ConstantColumn /\ Len(column) >= 2)
              => normStatus = "DegenerateRangeError"
        /\ (method = "min_max" /\ Len(column) >= 1 /\ ~ConstantColumn) =>
              /\ normStatus = "ok"
              /\ \A k \in 1..Len(column) :
                    /\ norm[k].kind = "num"
                    /\ norm[k].den > 0
                    /\ 0 <= norm[k].num /\ norm[k].num <= norm[k].den
                    /\ column[k] = SeriesMin(column) => norm[k].num = 0
                    /\ column[k] = SeriesMax(column)
                          => norm[k].num = norm[k].den
                    /\ (column[k] = 15 /\ SeriesMin(column) = 10
                          /\ SeriesMax(column) = 20)
                          => RatEq(norm[k], [num |-> 1, den |-> 2])

\* The four fields of the race: (year, month-day, course, race number).
RaceFields == {"kaisai_nen", "kaisai_tsukihi", "keibajo_code", "race_bango"}

SameRace(a, b) == \A f \in RaceFields : PyStr(a[f]) = PyStr(b[f])

\* Every field of the race has the same width in the two rows.
FixedWidth(a, b) == \A f \in RaceFields : Len(PyStr(a[f])) = Len(PyStr(b[f]))

ExampleRow ==
    IdRow(StrV("2021"), StrV("0101"), StrV("05"), StrV("12"),
          StrV("1234567890"))

\* The ids are as long as their parts together, and for two rows whose race
\* fields have the same widths the race ids are equal exactly when the four
\* fields are equal, the horse-race ids exactly when race and horse are.
IdsConcatenateInjectively ==
    idPc = "done" =>
        /\ Len(raceIdA) = Len(PyStr(rowA.kaisai_nen))
                            + Len(PyStr(rowA.kaisai_tsukihi))
                            + Len(PyStr(rowA.keibajo_code))
                            + Len(PyStr(rowA.race_bango))
        /\ Len(horseRaceIdA) = Len(raceIdA) + 1
                                 + Len(PyStr(rowA.ketto_toroku_bango))
        /\ FixedWidth(rowA, rowB) =>
              /\ raceIdA = raceIdB <=> SameRace(rowA, rowB)
              /\ horseRaceIdA = horseRaceIdB
                    <=> (/\ SameRace(rowA, rowB)
                         /\ PyStr(rowA.ketto_toroku_bango)
                              = PyStr(rowB.ketto_toroku_bango))

SavedHere ==
    IF fxDir # "none" /\ fxLast.name \in DOMAIN fxSaved[fxDir]
    THEN fxSaved[fxDir][fxLast.name] ELSE <<>>

\* C13: the directory of an extractor exists once it is constructed, so
\* save_to_cache succeeds even when the directory did not exist before;
\* load_from_cache(name) raises nothing and returns None when nothing was
\* saved under name, and otherwise the data most recently saved under name
\* in this directory, whatever was saved under other names.
C13_CacheStore ==
    /\ fxDir # "none" => fxDir \in dirs
    /\ fxLast.op = "save" => fxLast.status = "ok"
    /\ fxLast.op = "load" =>
          /\ fxLast.status = "ok"
          /\ IF SavedHere = <<>> THEN fxLast.ret = NoRet
             ELSE fxLast.ret = [none |-> FALSE,
                                table |-> SavedHere[Len(SavedHere)]]

\* The constructor created the directory, two different tables were saved
\* under one name and something under another name, and load_from_cache
\* returned the second of the two.
C13_Witness ==
    /\ fxLast.op = "load"
    /\ fxMade
    /\ Len(SavedHere) >= 2
    /\ SavedHere[1] # SavedHere[2]
    /\ fxLast.ret.table = SavedHere[2]
    /\ \E other \in DOMAIN fxSaved[fxDir] : other # fxLast.name

\* C14: an entry of the cache directory, once it exists, exists in every
\* later state, and its content changes only in a query_with_cache call on
\* its key with force_refresh: not in a call that is not forced, not in a
\* call on another key, not in a cache operation of a feature extractor on
\* the default directory.
C14_EntryLifecycle ==
    [][\A k \in DOMAIN cache :
          /\ k \in DOMAIN cache'
          /\ cache'[k] # cache[k]
                => (IsCall /\ last'.fn # "jockey" /\ last'.key = k
                      /\ last'.force)]_vars

\* Both callers found no entry, ran the query and wrote, and both returned.
BothMissedAndDone ==
    \A p \in Callers : /\ caller[p].pc = "done"
                       /\ caller[p].missed
                       /\ caller[p].status = "ok"

\* C15: when two interleaved calls on one absent key both missed and both
\* finished, each returned the table it computed itself, and the entry of
\* the key exists and is exactly the table written by the caller that
\* wrote last: not absent, not a mixture of the two tables.
C15_LastWriterWins ==
    BothMissedAndDone =>
        /\ \A p \in Callers : caller[p].ret = caller[p].tbl
        /\ cfile.exists
        /\ FileEntry(cfile) = Pickle(caller[lastWriter].tbl)

====
